---- MODULE Spec2Model ----
(***************************************************************************)
(* The loan lifecycle of loans254-program (src/src/processor.rs): the four *)
(* instruction handlers acting on one loan record, the SPL token service   *)
(* they call through invoke / invoke_signed, and the host's whole-         *)
(* instruction atomicity.                                                  *)
(*                                                                         *)
(* One step of the model is one instruction processed to its end.  The     *)
(* handlers are translated check by check, in the order of the code; an    *)
(* input the code never reads on a path is not drawn on that path.  What a *)
(* handler did before it returned (record written, requests issued) is     *)
(* kept in `last`, so that "rejected before anything was written" is a     *)
(* statement that can fail.                                                *)
(***************************************************************************)
EXTENDS Integers, Sequences, FiniteSets, TLC

(* ----------------------------- bounds ---------------------------------- *)
\* u64 is modelled as the integers modulo 2^Width.
Width == 16
\* InitLoan amounts are drawn from 0..MaxAmount, and the amount of the
\* program's own test beside them.
MaxAmount == 1
\* The rent sysvar's minimum balance (one threshold for every data length).
RentMin == 1
\* u32 is modelled as the integers modulo 2^Width32.
Width32 == 15

U64Mod == 2 ^ Width
U32Mod == 2 ^ Width32

\* The amount tests/init_loan.rs asks for.
ExamplePrincipal == 13337
\* The amounts InitLoan is called with: the small ones, the test's, and one
\* the loan account's lamports do not cover.
InitAmounts == (0..MaxAmount) \cup {ExamplePrincipal, ExamplePrincipal + 1}

(* ----------------------------- state ----------------------------------- *)
VARIABLES
    loan,        \* the record stored in account "loan"
    tokenOwner,  \* token account -> the identity that may sign for it
    tokenAmount, \* token account -> tokens held
    last,        \* what the last instruction did and returned
    codec        \* the bytes and the value of a conversion under study

vars == <<loan, tokenOwner, tokenAmount, last, codec>>

(* ----------------------------- identities ------------------------------ *)
ZeroKey == "zero"
None == "none"
\* What next_account_info finds once the account list has ended.
Missing == "missing"
PDA == "pda"
ProgramId == "program_id"
SplTokenId == "spl_token"
SystemId == "system"
RentSysvar == "rent"

Parties == {"W1", "W2", "W3"}
Borrowers == {"W3"}
\* The token accounts there are: five, and a sixth where two loan records
\* are followed, which between them need six.
InitialTokenAccts == {"t1", "t2", "t3", "t4", "t5"}
TokenAccts ==
    InitialTokenAccts \cup (IF codec.phase = "two_loans" THEN {"t6"} ELSE {})
MintAccts == {"t1", "t5"}
LoanAccts == {"loan", "foreign", "poor"}
ReceiveSlot == {"t2", "t3", "W2", Missing}
RentSlot == {RentSysvar, "other", Missing}
TokenProgramSlot == {SplTokenId, "other", Missing}

\* AccountInfo.owner: the program that owns the account.
AccountOwner(a) ==
    IF a \in TokenAccts THEN SplTokenId
    ELSE IF a \in {"loan", "poor"} THEN ProgramId
    ELSE SystemId

\* AccountInfo.lamports(): the account's native balance.  No handler moves
\* lamports, so they are fixed.
Lamports(a) ==
    IF a \in {"t5", "poor", "foreign"} THEN 0
    ELSE IF a = "t2" THEN U64Mod - 1
    ELSE ExamplePrincipal

\* The token state before the first instruction: who may sign for each token
\* account, and how many tokens it holds (the whole supply fits a u64).
TokenOwner0 ==
    [a \in InitialTokenAccts |->
        IF a \in {"t1", "t2"} THEN "W1"
        ELSE IF a \in {"t3", "t4"} THEN "W2" ELSE "W3"]
TokenAmount0 == [a \in InitialTokenAccts |-> IF a = "t2" THEN U64Mod - 1 ELSE 0]

(* ----------------------------- fee / rate policy ----------------------- *)
get_interest_rate == 9
get_guarantor_share == 50
get_lender_share == 50
get_duration == 24 * 30
get_processing_fee == 1
get_application_fee == 1

\* get_borrowed_amount: the value when no addition or multiplication traps.
\* total_charge is a u32 sum, the product is a u64 product.
get_borrowed_amount(expected_amount, loan_duration, loan_interest) ==
    LET processing_fee == get_processing_fee
        total_charge == (loan_interest + processing_fee) % U32Mod
    IN  ((loan_duration \div (24 * 365))
            * ((total_charge \div 100) + 1)
            * expected_amount) % U64Mod

\* Some addition or multiplication of get_borrowed_amount exceeds its type:
\* the call panics in a build with overflow checks and wraps in one without.
get_borrowed_amount_overflows(expected_amount, loan_duration, loan_interest) ==
    LET processing_fee == get_processing_fee
        total_charge == loan_interest + processing_fee
        years == loan_duration \div (24 * 365)
        factor == ((total_charge % U32Mod) \div 100) + 1
    IN  \/ total_charge >= U32Mod
        \/ years * factor >= U64Mod
        \/ years * factor * expected_amount >= U64Mod

\* rent.is_exempt(lamports, data_len)
is_exempt_always(lamports) == TRUE
is_exempt(lamports) == lamports >= RentMin

(* ----------------------------- the loan record ------------------------- *)
StatusPending == "Pending"
StatusInitialized == "Initialized"
StatusGuaranteed == "Guaranteed"
StatusAccepted == "Accepted"
StatusRepaid == "Repaid"
StatusCancelled == "Cancelled"

\* A zero-filled record, as the bootstrap step leaves it.
ZeroLoan ==
    [is_initialized |-> FALSE,
     status |-> StatusPending,
     initializer_pubkey |-> ZeroKey,
     loan_mint_pubkey |-> ZeroKey,
     borrower_loan_receive_pubkey |-> ZeroKey,
     guarantor_pubkey |-> None,
     guarantor_repayment_pubkey |-> None,
     collateral_account_pubkey |-> None,
     lender_pubkey |-> None,
     lender_repayment_pubkey |-> None,
     expected_amount |-> 0,
     amount |-> 0,
     interest_rate |-> 0,
     duration |-> 0]

\* The data a handler reads from a loan account.  Only "loan" is ever
\* written: "poor" is not rent exempt and stays zero-filled; "foreign" is
\* not the program's, and holds what its owner put there: zeroes, or the
\* record its owner wrote.
LoanData(a) ==
    IF a = "loan" THEN loan
    ELSE IF a = "foreign" /\ codec.phase = "foreign_record" THEN codec.record
    ELSE ZeroLoan

NoCall ==
    [op |-> None, result |-> None, wrote |-> FALSE, cpis |-> <<>>,
     target |-> None, signer |-> None, mismatch |-> {}, short |-> None,
     wrong_owner |-> {}, below_rent |-> {}, args |-> <<>>, amount |-> 0]

\* No conversion is under study while the handlers run.
NoCodec == [phase |-> None]

Init ==
    /\ loan = ZeroLoan
    /\ tokenOwner = TokenOwner0
    /\ tokenAmount = TokenAmount0
    /\ last = NoCall
    /\ codec = NoCodec

(* ----------------------------- host atomicity -------------------------- *)
\* An instruction that returns an error is rolled back by the host: nothing
\* it wrote or requested is committed.  `obs` keeps what it had done.
Abort(obs, err) ==
    /\ last' = [obs EXCEPT !.result = err]
    /\ UNCHANGED <<loan, tokenOwner, tokenAmount, codec>>

Commit(obs, newLoan, newOwner, newAmount) ==
    /\ last' = [obs EXCEPT !.result = "Ok"]
    /\ loan' = newLoan
    /\ tokenOwner' = newOwner
    /\ tokenAmount' = newAmount
    /\ UNCHANGED codec

Call(op) == [NoCall EXCEPT !.op = op]

\* What the observer notes of a source account's tokens against the amount
\* the instruction must cover.
Covers(held, needed) == IF held < needed THEN "short" ELSE "covered"

\* What the observer notes of an account presented where the handler wants
\* one owned by `program`, and of one it wants rent exempt.
NotedOwner(obs, slot, account, program) ==
    IF AccountOwner(account) # program
        THEN [obs EXCEPT !.wrong_owner = @ \cup {slot}] ELSE obs

NotedRent(obs, slot, account) ==
    IF Lamports(account) < RentMin
        THEN [obs EXCEPT !.below_rent = @ \cup {slot}] ELSE obs

\* The accounts, in the order the handler reads them, and the amount of an
\* instruction that ran to its end.
Processed(obs, accounts, amount) ==
    [obs EXCEPT !.args = accounts, !.amount = amount]

(* ----------------------------- InitLoan -------------------------------- *)
require_signer_skipped(is_signer) == TRUE
require_signer(is_signer) == is_signer

init_already_initialized_skipped(loan_info) == FALSE
init_already_initialized(loan_info) == loan_info.is_initialized

init_loan_info_swapped(loan_info, initializer, mint, receive, amount) ==
    [loan_info EXCEPT
        !.is_initialized = TRUE,
        !.status = StatusInitialized,
        !.initializer_pubkey = initializer,
        !.loan_mint_pubkey = receive,
        !.borrower_loan_receive_pubkey = mint,
        !.expected_amount = amount,
        !.interest_rate = get_interest_rate,
        !.duration = get_duration,
        !.amount = get_borrowed_amount(amount, get_duration, get_interest_rate)]

init_loan_info_pending(loan_info, initializer, mint, receive, amount) ==
    [loan_info EXCEPT
        !.is_initialized = TRUE,
        !.initializer_pubkey = initializer,
        !.loan_mint_pubkey = mint,
        !.borrower_loan_receive_pubkey = receive,
        !.expected_amount = amount,
        !.interest_rate = get_interest_rate,
        !.duration = get_duration,
        !.amount = get_borrowed_amount(amount, get_duration, get_interest_rate)]

init_loan_info(loan_info, initializer, mint, receive, amount) ==
    LET d == get_duration
        r == get_interest_rate
    IN  [loan_info EXCEPT
            !.is_initialized = TRUE,
            !.status = StatusInitialized,
            !.initializer_pubkey = initializer,
            !.loan_mint_pubkey = mint,
            !.borrower_loan_receive_pubkey = receive,
            !.expected_amount = amount,
            !.interest_rate = r,
            !.duration = d,
            !.amount = get_borrowed_amount(amount, d, r)]

process_init_loan ==
    LET c0 == Call("InitLoan") IN
    \E initializer \in Borrowers \cup {Missing}, is_signer \in BOOLEAN :
    IF initializer = Missing THEN Abort(c0, "NotEnoughAccountKeys") ELSE
    LET c1 == [c0 EXCEPT !.signer = IF is_signer THEN "signed" ELSE "unsigned"] IN
    IF ~require_signer(is_signer) THEN Abort(c1, "MissingRequiredSignature") ELSE
    \E mint \in MintAccts \cup {Missing} :
    IF mint = Missing THEN Abort(c1, "NotEnoughAccountKeys") ELSE
    \E receive \in ReceiveSlot :
    IF receive = Missing THEN Abort(c1, "NotEnoughAccountKeys") ELSE
    LET c1r == NotedOwner(c1, "receive", receive, SplTokenId) IN
    IF AccountOwner(receive) # SplTokenId THEN Abort(c1r, "IncorrectProgramId") ELSE
    \E loan_account \in LoanAccts \cup {Missing} :
    IF loan_account = Missing THEN Abort(c1r, "NotEnoughAccountKeys") ELSE
    LET c2 == NotedOwner([c1r EXCEPT !.target = loan_account],
                         "loan", loan_account, ProgramId) IN
    IF AccountOwner(loan_account) # ProgramId THEN Abort(c2, "IncorrectProgramId") ELSE
    \E rent \in RentSlot :
    IF rent = Missing THEN Abort(c2, "NotEnoughAccountKeys") ELSE
    IF rent # RentSysvar THEN Abort(c2, "InvalidArgument") ELSE
    LET c3 == NotedRent(c2, "loan", loan_account) IN
    IF ~is_exempt(Lamports(loan_account)) THEN Abort(c3, "NotRentExempt") ELSE
    \E amount \in InitAmounts :
    IF Lamports(loan_account) < get_application_fee * amount
        THEN Abort(c3, "InsufficientFunds") ELSE
    LET loan_info == LoanData(loan_account) IN
    IF init_already_initialized(loan_info)
        THEN Abort(c3, "AccountAlreadyInitialized") ELSE
    Commit(Processed([c3 EXCEPT !.wrote = TRUE],
                     <<initializer, mint, receive, loan_account>>, amount),
           init_loan_info(loan_info, initializer, mint, receive, amount),
           tokenOwner, tokenAmount)

(* ----------------------------- the token service ----------------------- *)
\* spl_token set_authority(AccountOwner): the present owner must be the
\* authority that signs the request.
token_set_authority_error(owners, account, authority) ==
    IF owners[account] # authority THEN "TokenOwnerMismatch" ELSE "Ok"

token_set_authority(owners, account, new_owner) ==
    [owners EXCEPT ![account] = new_owner]

\* spl_token transfer, signed by `authority`.
token_transfer_error(owners, amounts, source, destination, authority, amount) ==
    IF amounts[source] < amount THEN "TokenInsufficientFunds"
    ELSE IF owners[source] # authority THEN "TokenOwnerMismatch"
    ELSE IF source # destination /\ amounts[destination] + amount >= U64Mod
        THEN "TokenOverflow"
    ELSE "Ok"

token_transfer(amounts, source, destination, amount) ==
    IF source = destination THEN amounts
    ELSE [amounts EXCEPT ![source] = @ - amount, ![destination] = @ + amount]

\* spl_token's instruction builders refuse any program id but spl_token's.
token_program_error(token_program) ==
    IF token_program = SplTokenId THEN "Ok" ELSE "IncorrectProgramId"

Issued(obs, kind) == [obs EXCEPT !.cpis = Append(@, kind)]

\* The host, at the first invoke after the program changed an account's
\* data: only the account's owner may change it.
account_write_error(account) ==
    IF AccountOwner(account) # ProgramId THEN "ExternalAccountDataModified" ELSE "Ok"

(* ----------------------------- GuaranteeLoan --------------------------- *)
guarantee_status_ok_any(loan_data) == TRUE
guarantee_status_ok(loan_data) == loan_data.status = StatusInitialized

guarantee_loan_data_swapped(loan_data, guarantor, collateral, guarantor_payment) ==
    [loan_data EXCEPT
        !.status = StatusGuaranteed,
        !.guarantor_pubkey = guarantor,
        !.guarantor_repayment_pubkey = collateral,
        !.collateral_account_pubkey = guarantor_payment]

guarantee_loan_data(loan_data, guarantor, collateral, guarantor_payment) ==
    [loan_data EXCEPT
        !.status = StatusGuaranteed,
        !.guarantor_pubkey = guarantor,
        !.guarantor_repayment_pubkey = guarantor_payment,
        !.collateral_account_pubkey = collateral]

\* Some(&pda): the new owner GuaranteeLoan asks for.
guarantee_new_authority_kept(guarantor) == guarantor
guarantee_new_authority(guarantor) == PDA

process_guarantee_loan ==
    LET c0 == Call("GuaranteeLoan") IN
    \E guarantor \in Parties \cup {Missing}, is_signer \in BOOLEAN :
    IF guarantor = Missing THEN Abort(c0, "NotEnoughAccountKeys") ELSE
    LET c1 == [c0 EXCEPT !.signer = IF is_signer THEN "signed" ELSE "unsigned"] IN
    IF ~require_signer(is_signer) THEN Abort(c1, "MissingRequiredSignature") ELSE
    \E loan_account \in LoanAccts \cup {Missing} :
    IF loan_account = Missing THEN Abort(c1, "NotEnoughAccountKeys") ELSE
    LET c2o == NotedOwner([c1 EXCEPT !.target = loan_account],
                          "loan", loan_account, ProgramId) IN
    IF AccountOwner(loan_account) # ProgramId THEN Abort(c2o, "IncorrectProgramId") ELSE
    \E rent \in RentSlot :
    IF rent = Missing THEN Abort(c2o, "NotEnoughAccountKeys") ELSE
    IF rent # RentSysvar THEN Abort(c2o, "InvalidArgument") ELSE
    LET c2 == NotedRent(c2o, "loan", loan_account) IN
    IF ~is_exempt(Lamports(loan_account)) THEN Abort(c2, "NotRentExempt") ELSE
    LET loan_data == LoanData(loan_account) IN
    IF ~loan_data.is_initialized THEN Abort(c2, "UninitializedAccount") ELSE
    IF ~guarantee_status_ok(loan_data) THEN Abort(c2, "InvalidInstruction") ELSE
    \E collateral \in TokenAccts :
    LET c3s == [c2 EXCEPT !.short = Covers(tokenAmount[collateral], loan_data.amount)] IN
    IF Lamports(collateral) < loan_data.amount THEN Abort(c3s, "InsufficientFunds") ELSE
    \E guarantor_payment \in TokenAccts :
    LET c3 == NotedRent(c3s, "guarantor_payment", guarantor_payment) IN
    IF ~is_exempt(Lamports(guarantor_payment)) THEN Abort(c3, "NotRentExempt") ELSE
    LET new_data == guarantee_loan_data(loan_data, guarantor, collateral,
                                        guarantor_payment)
        c4 == [c3 EXCEPT !.wrote = TRUE]
    IN
    \E token_program \in TokenProgramSlot :
    IF token_program = Missing THEN Abort(c4, "NotEnoughAccountKeys") ELSE
    IF token_program_error(token_program) # "Ok"
        THEN Abort(c4, token_program_error(token_program)) ELSE
    LET c5 == Issued(c4, "set_authority")
        e1 == token_set_authority_error(tokenOwner, collateral, guarantor)
        o1 == token_set_authority(tokenOwner, collateral,
                                  guarantee_new_authority(guarantor))
        c6 == Issued(c5, "set_authority")
        e2 == token_set_authority_error(o1, guarantor_payment, guarantor)
        o2 == token_set_authority(o1, guarantor_payment,
                                  guarantee_new_authority(guarantor))
    IN
    IF e1 # "Ok" THEN Abort(c5, e1) ELSE
    IF e2 # "Ok" THEN Abort(c6, e2) ELSE
    Commit(Processed(c6, <<guarantor, collateral, guarantor_payment, loan_account>>, 0),
           new_data, o2, tokenAmount)

(* ----------------------------- AcceptLoan ------------------------------ *)
accept_status_ok_any(loan_data) == TRUE
accept_status_ok(loan_data) == loan_data.status = StatusGuaranteed

\* `presented != recorded` for a plain key and for a COption<Pubkey>.
key_differs_ignored(presented, recorded) == FALSE
key_differs(presented, recorded) == presented # recorded

\* What the observer notes of a presented account, whatever the handler
\* makes of it.
Noted(obs, slot, presented, recorded) ==
    IF presented # recorded
        THEN [obs EXCEPT !.mismatch = @ \cup {slot}] ELSE obs

accept_loan_data_overwriting(loan_data, lender, lender_repayment) ==
    [loan_data EXCEPT
        !.status = StatusAccepted,
        !.guarantor_pubkey = lender,
        !.lender_pubkey = lender,
        !.lender_repayment_pubkey = lender_repayment]

accept_loan_data(loan_data, lender, lender_repayment) ==
    [loan_data EXCEPT
        !.status = StatusAccepted,
        !.lender_pubkey = lender,
        !.lender_repayment_pubkey = lender_repayment]

\* let amount: u64 = loan_data.expected_amount
accept_transfer_amount_total(loan_data) == loan_data.amount
accept_transfer_amount(loan_data) == loan_data.expected_amount

process_accept_loan ==
    LET c0 == Call("AcceptLoan") IN
    \E lender \in Parties \cup {Missing}, is_signer \in BOOLEAN :
    IF lender = Missing THEN Abort(c0, "NotEnoughAccountKeys") ELSE
    LET c1 == [c0 EXCEPT !.signer = IF is_signer THEN "signed" ELSE "unsigned"] IN
    IF ~require_signer(is_signer) THEN Abort(c1, "MissingRequiredSignature") ELSE
    \E lender_repayment \in TokenAccts \cup Parties \cup {Missing} :
    IF lender_repayment = Missing THEN Abort(c1, "NotEnoughAccountKeys") ELSE
    LET c1r == NotedOwner(c1, "lender_repayment", lender_repayment, SplTokenId) IN
    IF AccountOwner(lender_repayment) # SplTokenId
        THEN Abort(c1r, "IncorrectProgramId") ELSE
    \E loan_account \in LoanAccts \cup {Missing} :
    IF loan_account = Missing THEN Abort(c1r, "NotEnoughAccountKeys") ELSE
    LET c2o == NotedOwner([c1r EXCEPT !.target = loan_account],
                          "loan", loan_account, ProgramId) IN
    IF AccountOwner(loan_account) # ProgramId THEN Abort(c2o, "IncorrectProgramId") ELSE
    \E rent \in RentSlot :
    IF rent = Missing THEN Abort(c2o, "NotEnoughAccountKeys") ELSE
    IF rent # RentSysvar THEN Abort(c2o, "InvalidArgument") ELSE
    LET c2l == NotedRent(c2o, "loan", loan_account) IN
    IF ~is_exempt(Lamports(loan_account)) THEN Abort(c2l, "NotRentExempt") ELSE
    LET c2 == NotedRent(c2l, "lender_repayment", lender_repayment) IN
    IF ~is_exempt(Lamports(lender_repayment)) THEN Abort(c2, "NotRentExempt") ELSE
    LET loan_data == LoanData(loan_account) IN
    IF ~loan_data.is_initialized THEN Abort(c2, "UninitializedAccount") ELSE
    IF ~accept_status_ok(loan_data) THEN Abort(c2, "InvalidInstruction") ELSE
    \E borrower_loan_receive \in TokenAccts :
    LET c3 == Noted(c2, "borrower_loan_receive", borrower_loan_receive,
                    loan_data.borrower_loan_receive_pubkey) IN
    IF key_differs(borrower_loan_receive, loan_data.borrower_loan_receive_pubkey)
        THEN Abort(c3, "NotAuthorized") ELSE
    \E lender_loan_transfer \in TokenAccts :
    LET c4 == [c3 EXCEPT !.short =
                  Covers(tokenAmount[lender_loan_transfer], loan_data.expected_amount)] IN
    IF Lamports(lender_loan_transfer) < loan_data.expected_amount
        THEN Abort(c4, "InsufficientFunds") ELSE
    LET amount == accept_transfer_amount(loan_data)
        new_data == accept_loan_data(loan_data, lender, lender_repayment)
        c5 == [c4 EXCEPT !.wrote = TRUE]
    IN
    \E token_program \in TokenProgramSlot :
    IF token_program = Missing THEN Abort(c5, "NotEnoughAccountKeys") ELSE
    IF token_program_error(token_program) # "Ok"
        THEN Abort(c5, token_program_error(token_program)) ELSE
    LET c6 == Issued(c5, "set_authority")
        e1 == token_set_authority_error(tokenOwner, lender_repayment, lender)
        o1 == token_set_authority(tokenOwner, lender_repayment, PDA)
        c7 == Issued(c6, "transfer")
        e2 == token_transfer_error(o1, tokenAmount, lender_loan_transfer,
                                   borrower_loan_receive, lender, amount)
        a2 == token_transfer(tokenAmount, lender_loan_transfer,
                             borrower_loan_receive, amount)
    IN
    IF e1 # "Ok" THEN Abort(c6, e1) ELSE
    IF e2 # "Ok" THEN Abort(c7, e2) ELSE
    Commit(Processed(c7, <<lender, lender_loan_transfer, lender_repayment,
                           borrower_loan_receive, loan_account>>, 0),
           new_data, o1, a2)

(* ----------------------------- RepayLoan ------------------------------- *)
repay_status_ok_any(loan_data) == TRUE
repay_status_ok(loan_data) == loan_data.status = StatusAccepted

repay_loan_data_reset(loan_data) == [loan_data EXCEPT !.status = StatusInitialized]
repay_loan_data_cancelled(loan_data) == [loan_data EXCEPT !.status = StatusCancelled]
repay_loan_data_rewritten(loan_data) ==
    [loan_data EXCEPT !.status = StatusRepaid, !.duration = 0]
repay_loan_data(loan_data) == [loan_data EXCEPT !.status = StatusRepaid]

\* (amount - expected_amount) in u64: wraps where the build does not check.
loan_interest_total(loan_data) == loan_data.amount
loan_interest(loan_data) ==
    (loan_data.amount - loan_data.expected_amount) % U64Mod

\* (loan_interest - program_share) * (pct / 100) as u64, with
\* program_share = loan_interest * processing_fee / 100, in f64.
interest_share_whole(interest, pct) == (interest * pct) \div 100
interest_share(interest, pct) ==
    (interest * (100 - get_processing_fee) * pct) \div (100 * 100)

\* The last request of RepayLoan: the lender's token account back to the lender.
release_lender_token_skipped(owners, lender_token, lender) == owners
release_lender_token(owners, lender_token, lender) ==
    token_set_authority(owners, lender_token, lender)

process_repay_loan ==
    LET c0 == Call("RepayLoan") IN
    \E payer \in Parties \cup {Missing}, is_signer \in BOOLEAN :
    IF payer = Missing THEN Abort(c0, "NotEnoughAccountKeys") ELSE
    LET c1 == [c0 EXCEPT !.signer = IF is_signer THEN "signed" ELSE "unsigned"] IN
    IF ~require_signer(is_signer) THEN Abort(c1, "MissingRequiredSignature") ELSE
    \E loan_account \in LoanAccts \cup {Missing} :
    IF loan_account = Missing THEN Abort(c1, "NotEnoughAccountKeys") ELSE
    LET c2 == [c1 EXCEPT !.target = loan_account]
        loan_data == LoanData(loan_account)
    IN
    IF ~loan_data.is_initialized THEN Abort(c2, "UninitializedAccount") ELSE
    IF ~repay_status_ok(loan_data) THEN Abort(c2, "InvalidInstruction") ELSE
    \E payer_token \in TokenAccts :
    LET c3 == [c2 EXCEPT !.short = Covers(tokenAmount[payer_token], loan_data.amount)] IN
    IF Lamports(payer_token) < loan_data.amount THEN Abort(c3, "InsufficientFunds") ELSE
    \E guarantor \in Parties :
    LET c4 == Noted(c3, "guarantor", guarantor, loan_data.guarantor_pubkey) IN
    IF key_differs(guarantor, loan_data.guarantor_pubkey)
        THEN Abort(c4, "NotAuthorized") ELSE
    \E guarantor_token \in TokenAccts :
    LET c5 == Noted(c4, "guarantor_token", guarantor_token,
                    loan_data.guarantor_repayment_pubkey) IN
    IF key_differs(guarantor_token, loan_data.guarantor_repayment_pubkey)
        THEN Abort(c5, "NotAuthorized") ELSE
    \E collateral_token \in TokenAccts :
    LET c6 == Noted(c5, "collateral_token", collateral_token,
                    loan_data.collateral_account_pubkey) IN
    IF key_differs(collateral_token, loan_data.collateral_account_pubkey)
        THEN Abort(c6, "NotAuthorized") ELSE
    \E lender \in Parties :
    LET c7 == Noted(c6, "lender", lender, loan_data.lender_pubkey) IN
    IF key_differs(lender, loan_data.lender_pubkey)
        THEN Abort(c7, "NotAuthorized") ELSE
    \E lender_token \in TokenAccts :
    LET c8 == Noted(c7, "lender_token", lender_token,
                    loan_data.lender_repayment_pubkey) IN
    IF key_differs(lender_token, loan_data.lender_repayment_pubkey)
        THEN Abort(c8, "NotAuthorized") ELSE
    \E overflow_checks \in BOOLEAN :
    LET interest == loan_interest(loan_data)
        lender_share == interest_share(interest, get_lender_share)
        guarantor_share == interest_share(interest, get_guarantor_share)
        total_lender_share == (lender_share + loan_data.expected_amount) % U64Mod
        overflows == \/ loan_data.amount < loan_data.expected_amount
                     \/ lender_share + loan_data.expected_amount >= U64Mod
    IN
    IF overflows /\ overflow_checks THEN Abort(c8, "Panic") ELSE
    LET new_data == repay_loan_data(loan_data)
        c9 == [c8 EXCEPT !.wrote = TRUE]
    IN
    \E pda_account \in {PDA, "other", Missing} :
    IF pda_account = Missing THEN Abort(c9, "NotEnoughAccountKeys") ELSE
    \E token_program \in TokenProgramSlot :
    IF token_program = Missing THEN Abort(c9, "NotEnoughAccountKeys") ELSE
    IF token_program_error(token_program) # "Ok"
        THEN Abort(c9, token_program_error(token_program)) ELSE
    IF account_write_error(loan_account) # "Ok"
        THEN Abort(c9, account_write_error(loan_account)) ELSE
    LET c10 == Issued(c9, "transfer")
        e1 == token_transfer_error(tokenOwner, tokenAmount, payer_token,
                                   guarantor_token, payer, guarantor_share)
        a1 == token_transfer(tokenAmount, payer_token, guarantor_token,
                             guarantor_share)
        c11 == Issued(c10, "transfer")
        e2 == token_transfer_error(tokenOwner, a1, payer_token, lender_token,
                                   payer, total_lender_share)
        a2 == token_transfer(a1, payer_token, lender_token, total_lender_share)
        c12 == Issued(c11, "set_authority")
        e3 == token_set_authority_error(tokenOwner, collateral_token, PDA)
        o3 == token_set_authority(tokenOwner, collateral_token, guarantor)
        c13 == Issued(c12, "set_authority")
        e4 == token_set_authority_error(o3, guarantor_token, PDA)
        o4 == token_set_authority(o3, guarantor_token, guarantor)
        c14 == Issued(c13, "set_authority")
        e5 == token_set_authority_error(o4, lender_token, PDA)
        o5 == release_lender_token(o4, lender_token, lender)
    IN
    IF e1 # "Ok" THEN Abort(c10, e1) ELSE
    IF e2 # "Ok" THEN Abort(c11, e2) ELSE
    IF pda_account # PDA THEN Abort(c12, "MissingAccount") ELSE
    IF e3 # "Ok" THEN Abort(c12, e3) ELSE
    IF e4 # "Ok" THEN Abort(c13, e4) ELSE
    IF e5 # "Ok" THEN Abort(c14, e5) ELSE
    Commit(Processed(c14, <<payer, payer_token, guarantor, collateral_token,
                            guarantor_token, lender, lender_token, loan_account>>, 0),
           new_data, o5, a2)

(* ----------------------------- the program ----------------------------- *)
Next ==
    \/ process_init_loan
    \/ process_guarantee_loan
    \/ process_accept_loan
    \/ process_repay_loan

Spec == Init /\ [][Next]_vars

(* ----------------------------- RepayLoan alone ------------------------- *)
\* The share arithmetic of RepayLoan, applied to records it may be handed:
\* <<amount, expected_amount>> of an Accepted loan.  The fee policy of
\* InitLoan only ever stores amount 0, so these records are drawn directly.
RepayCases ==
    {<<0, 0>>, <<2, 0>>, <<199, 0>>, <<200, 0>>, <<20000, ExamplePrincipal>>,
     <<ExamplePrincipal, ExamplePrincipal>>, <<U64Mod - 1, 0>>, <<0, 1>>}

\* An Accepted loan of borrower W3, guaranteed by W2 with t3 and t4 and lent
\* by W3 with t5, the three accounts held by the custodian.
AcceptedLoan(amount, expected_amount) ==
    [ZeroLoan EXCEPT
        !.is_initialized = TRUE,
        !.status = StatusAccepted,
        !.initializer_pubkey = "W3",
        !.loan_mint_pubkey = "t5",
        !.borrower_loan_receive_pubkey = "t1",
        !.guarantor_pubkey = "W2",
        !.collateral_account_pubkey = "t3",
        !.guarantor_repayment_pubkey = "t4",
        !.lender_pubkey = "W3",
        !.lender_repayment_pubkey = "t5",
        !.expected_amount = expected_amount,
        !.amount = amount,
        !.interest_rate = get_interest_rate,
        !.duration = get_duration]

InitRepay ==
    /\ \E c \in RepayCases : loan = AcceptedLoan(c[1], c[2])
    /\ tokenOwner = [a \in InitialTokenAccts |->
                        IF a \in {"t3", "t4", "t5"} THEN PDA ELSE TokenOwner0[a]]
    /\ tokenAmount = TokenAmount0
    /\ last = NoCall
    /\ codec = NoCodec

NextRepay == process_repay_loan

SpecRepay == InitRepay /\ [][NextRepay]_vars

(* ----------------------------- a record of another owner --------------- *)
\* The records the owner of "foreign" may have written there: any status,
\* naming W1 as guarantor and lender and token accounts of its choice,
\* among them the ones in custody for "loan".
ForeignRecords ==
    {[ZeroLoan EXCEPT
        !.is_initialized = i,
        !.status = st,
        !.initializer_pubkey = "W1",
        !.loan_mint_pubkey = "t1",
        !.borrower_loan_receive_pubkey = "t2",
        !.guarantor_pubkey = "W1",
        !.collateral_account_pubkey = c,
        !.guarantor_repayment_pubkey = g,
        !.lender_pubkey = "W1",
        !.lender_repayment_pubkey = l,
        !.expected_amount = 0,
        !.amount = a] :
        i \in BOOLEAN,
        st \in {StatusGuaranteed, StatusAccepted},
        c \in {"t3"}, g \in {"t1", "t4"}, l \in {"t1"},
        a \in {0, 200}}

\* "loan" is Accepted with t3, t4 and t5 in custody, and "foreign" holds a
\* record of its owner's making.
InitForeign ==
    /\ loan = AcceptedLoan(0, 0)
    /\ tokenOwner = [a \in InitialTokenAccts |-> IF a \in {"t3", "t4", "t5"} THEN PDA ELSE TokenOwner0[a]]
    /\ tokenAmount = TokenAmount0
    /\ last = NoCall
    /\ \E r \in ForeignRecords : codec = [phase |-> "foreign_record", record |-> r]

SpecForeign == InitForeign /\ [][Next]_vars

(* ----------------------------- bytes ----------------------------------- *)
\* A byte buffer is a sequence of numbers below 256.  Numbers are kept below
\* 2^31, so the bytes above the fourth of a little-endian u64 are drawn as 0.
RECURSIVE from_le_bytes(_)
from_le_bytes(bytes) ==
    IF bytes = <<>> THEN 0 ELSE Head(bytes) + 256 * from_le_bytes(Tail(bytes))

RECURSIVE to_le_bytes(_, _)
to_le_bytes(n, len) ==
    IF len = 0 THEN <<>> ELSE <<n % 256>> \o to_le_bytes(n \div 256, len - 1)

\* The bytes a position of a drawn buffer may hold.
BytesAt(i) ==
    IF i <= 3 THEN {0, 1, 255} ELSE IF i = 4 THEN {0, 127} ELSE {0}

RECURSIVE Payloads(_)
Payloads(n) ==
    IF n = 0 THEN {<<>>}
    ELSE {Append(p, b) : p \in Payloads(n - 1), b \in BytesAt(n)}

(* ----------------------------- instruction codec ----------------------- *)
\* The longest payload drawn after the tag byte.
MaxPayload == 9

InitLoanIx(amount) == [tag |-> "InitLoan", amount |-> amount]
GuaranteeLoanIx == [tag |-> "GuaranteeLoan", amount |-> 0]
AcceptLoanIx == [tag |-> "AcceptLoan", amount |-> 0]
RepayLoanIx == [tag |-> "RepayLoan", amount |-> 0]
\* Err(InvalidInstruction)
InvalidIx == [tag |-> "InvalidInstruction", amount |-> 0]

\* input.get(..8), try_into, u64::from_le_bytes
unpack_amount_short(input) ==
    IF Len(input) < 4 THEN InvalidIx
    ELSE InitLoanIx(from_le_bytes(SubSeq(input, 1, 4)))

unpack_amount(input) ==
    IF Len(input) < 8 THEN InvalidIx
    ELSE InitLoanIx(from_le_bytes(SubSeq(input, 1, 8)))

\* LoanInstruction::unpack
unpack(input) ==
    IF input = <<>> THEN InvalidIx
    ELSE LET tag == Head(input)
             rest == Tail(input)
         IN  CASE tag = 0 -> unpack_amount(rest)
               [] tag = 1 -> GuaranteeLoanIx
               [] tag = 2 -> AcceptLoanIx
               [] tag = 3 -> RepayLoanIx
               [] OTHER -> InvalidIx

\* borsh: the variant's index in one byte, then its fields, a u64 in eight
\* little-endian bytes.
pack_into_vec_bare(ix) ==
    CASE ix.tag = "InitLoan" -> <<0>>
      [] ix.tag = "GuaranteeLoan" -> <<1>>
      [] ix.tag = "AcceptLoan" -> <<2>>
      [] ix.tag = "RepayLoan" -> <<3>>

pack_into_vec(ix) ==
    CASE ix.tag = "InitLoan" -> <<0>> \o to_le_bytes(ix.amount, 8)
      [] ix.tag = "GuaranteeLoan" -> <<1>>
      [] ix.tag = "AcceptLoan" -> <<2>>
      [] ix.tag = "RepayLoan" -> <<3>>

\* The buffers and the instructions the conversions are applied to.
WireTags == {0, 1, 2, 3, 4, 255}
WireBuffers ==
    {<<>>} \cup {<<t>> \o p : t \in WireTags,
                               p \in UNION {Payloads(n) : n \in 0..MaxPayload}}
WireAmounts == {0, 1, 255, 256, ExamplePrincipal, 65535, 65536, 2147483647}
WireInstructions ==
    {InitLoanIx(a) : a \in WireAmounts}
        \cup {GuaranteeLoanIx, AcceptLoanIx, RepayLoanIx}

\* A buffer is decoded and, where that gave an instruction, encoded again; an
\* instruction is encoded and decoded again.
InitWire ==
    /\ loan = ZeroLoan
    /\ tokenOwner = TokenOwner0
    /\ tokenAmount = TokenAmount0
    /\ last = NoCall
    /\ \/ \E b \in WireBuffers :
            codec = [phase |-> "buffer", buf0 |-> b, ix0 |-> InvalidIx,
                     buf |-> b, ix |-> InvalidIx]
       \/ \E i \in WireInstructions :
            codec = [phase |-> "instruction", buf0 |-> <<>>, ix0 |-> i,
                     buf |-> <<>>, ix |-> i]

Held == UNCHANGED <<loan, tokenOwner, tokenAmount, last>>

wire_unpack ==
    /\ codec.phase \in {"buffer", "packed"}
    /\ codec' = [codec EXCEPT
                    !.phase = IF @ = "buffer" THEN "unpacked" ELSE "packed_unpacked",
                    !.ix = unpack(codec.buf)]
    /\ Held

wire_pack ==
    /\ \/ codec.phase = "instruction"
       \/ codec.phase = "unpacked" /\ codec.ix # InvalidIx
    /\ codec' = [codec EXCEPT
                    !.phase = IF @ = "instruction" THEN "packed" ELSE "unpacked_packed",
                    !.buf = pack_into_vec(codec.ix)]
    /\ Held

NextWire == wire_unpack \/ wire_pack

SpecWire == InitWire /\ [][NextWire]_vars

(* ----------------------------- instruction builders -------------------- *)
\* AccountMeta::new(pubkey, is_signer) and AccountMeta::new_readonly.
AccountMeta_new(pubkey, is_signer) ==
    [pubkey |-> pubkey, is_signer |-> is_signer, is_writable |-> TRUE]
AccountMeta_new_readonly(pubkey, is_signer) ==
    [pubkey |-> pubkey, is_signer |-> is_signer, is_writable |-> FALSE]

\* The accounts of the instruction accept_loan creates.
accept_loan(lender_pubkey, lender_loan_transfer_token_pubkey, lender_repayment_token_pubkey, borrower_loan_receive_pubkey, loan_account_pubkey) ==
    <<AccountMeta_new(lender_pubkey, TRUE),
      AccountMeta_new_readonly(lender_loan_transfer_token_pubkey, FALSE),
      AccountMeta_new_readonly(lender_repayment_token_pubkey, FALSE),
      AccountMeta_new(loan_account_pubkey, FALSE),
      AccountMeta_new(borrower_loan_receive_pubkey, FALSE),
      AccountMeta_new_readonly(RentSysvar, FALSE),
      AccountMeta_new_readonly(SplTokenId, FALSE)>>

\* The accounts LoanInstruction::AcceptLoan documents.
AcceptLoanAccounts(lender_pubkey, lender_loan_transfer_token_pubkey, lender_repayment_token_pubkey, borrower_loan_receive_pubkey, loan_account_pubkey) ==
    <<AccountMeta_new_readonly(lender_pubkey, TRUE),
      AccountMeta_new(lender_loan_transfer_token_pubkey, FALSE),
      AccountMeta_new(lender_repayment_token_pubkey, FALSE),
      AccountMeta_new(borrower_loan_receive_pubkey, FALSE),
      AccountMeta_new(loan_account_pubkey, FALSE),
      AccountMeta_new_readonly(RentSysvar, FALSE),
      AccountMeta_new_readonly(SplTokenId, FALSE)>>

\* next_account_info: the i-th account of the list, if there is one.
next_account_info(accounts, i) ==
    IF i <= Len(accounts) THEN accounts[i].pubkey ELSE Missing

\* process_accept_loan on a given account list.
process_accept_loan_accounts(accounts) ==
    LET c0 == Call("AcceptLoan")
        lender == next_account_info(accounts, 1)
        lender_loan_transfer == next_account_info(accounts, 2)
        lender_repayment == next_account_info(accounts, 3)
        borrower_loan_receive == next_account_info(accounts, 4)
        loan_account == next_account_info(accounts, 5)
        rent == next_account_info(accounts, 6)
        token_program == next_account_info(accounts, 7)
    IN
    IF lender = Missing THEN Abort(c0, "NotEnoughAccountKeys") ELSE
    LET c1 == [c0 EXCEPT !.signer =
                  IF accounts[1].is_signer THEN "signed" ELSE "unsigned"] IN
    IF ~require_signer(accounts[1].is_signer)
        THEN Abort(c1, "MissingRequiredSignature") ELSE
    IF lender_loan_transfer = Missing THEN Abort(c1, "NotEnoughAccountKeys") ELSE
    IF lender_repayment = Missing THEN Abort(c1, "NotEnoughAccountKeys") ELSE
    LET c1r == NotedOwner(c1, "lender_repayment", lender_repayment, SplTokenId) IN
    IF AccountOwner(lender_repayment) # SplTokenId
        THEN Abort(c1r, "IncorrectProgramId") ELSE
    IF borrower_loan_receive = Missing THEN Abort(c1r, "NotEnoughAccountKeys") ELSE
    IF loan_account = Missing THEN Abort(c1r, "NotEnoughAccountKeys") ELSE
    LET c2o == NotedOwner([c1r EXCEPT !.target = loan_account],
                          "loan", loan_account, ProgramId) IN
    IF AccountOwner(loan_account) # ProgramId THEN Abort(c2o, "IncorrectProgramId") ELSE
    IF rent = Missing THEN Abort(c2o, "NotEnoughAccountKeys") ELSE
    IF rent # RentSysvar THEN Abort(c2o, "InvalidArgument") ELSE
    LET c2l == NotedRent(c2o, "loan", loan_account) IN
    IF ~is_exempt(Lamports(loan_account)) THEN Abort(c2l, "NotRentExempt") ELSE
    LET c2 == NotedRent(c2l, "lender_repayment", lender_repayment) IN
    IF ~is_exempt(Lamports(lender_repayment)) THEN Abort(c2, "NotRentExempt") ELSE
    LET loan_data == LoanData(loan_account) IN
    IF ~loan_data.is_initialized THEN Abort(c2, "UninitializedAccount") ELSE
    IF ~accept_status_ok(loan_data) THEN Abort(c2, "InvalidInstruction") ELSE
    LET c3 == Noted(c2, "borrower_loan_receive", borrower_loan_receive,
                    loan_data.borrower_loan_receive_pubkey) IN
    IF key_differs(borrower_loan_receive, loan_data.borrower_loan_receive_pubkey)
        THEN Abort(c3, "NotAuthorized") ELSE
    LET c4 == [c3 EXCEPT !.short =
                  Covers(tokenAmount[lender_loan_transfer], loan_data.expected_amount)] IN
    IF Lamports(lender_loan_transfer) < loan_data.expected_amount
        THEN Abort(c4, "InsufficientFunds") ELSE
    LET amount == accept_transfer_amount(loan_data)
        new_data == accept_loan_data(loan_data, lender, lender_repayment)
        c5 == [c4 EXCEPT !.wrote = TRUE]
    IN
    IF token_program = Missing THEN Abort(c5, "NotEnoughAccountKeys") ELSE
    IF token_program_error(token_program) # "Ok"
        THEN Abort(c5, token_program_error(token_program)) ELSE
    LET c6 == Issued(c5, "set_authority")
        e1 == token_set_authority_error(tokenOwner, lender_repayment, lender)
        o1 == token_set_authority(tokenOwner, lender_repayment, PDA)
        c7 == Issued(c6, "transfer")
        e2 == token_transfer_error(o1, tokenAmount, lender_loan_transfer,
                                   borrower_loan_receive, lender, amount)
        a2 == token_transfer(tokenAmount, lender_loan_transfer,
                             borrower_loan_receive, amount)
    IN
    IF e1 # "Ok" THEN Abort(c6, e1) ELSE
    IF e2 # "Ok" THEN Abort(c7, e2) ELSE
    Commit(Processed(c7, <<lender, lender_loan_transfer, lender_repayment,
                           borrower_loan_receive, loan_account>>, 0),
           new_data, o1, a2)

\* A Guaranteed loan of borrower W3, guaranteed by W2 with t3 and t4, the
\* two accounts held by the custodian.
GuaranteedLoan(borrower_loan_receive, expected_amount) ==
    [ZeroLoan EXCEPT
        !.is_initialized = TRUE,
        !.status = StatusGuaranteed,
        !.initializer_pubkey = "W3",
        !.loan_mint_pubkey = "t5",
        !.borrower_loan_receive_pubkey = borrower_loan_receive,
        !.guarantor_pubkey = "W2",
        !.collateral_account_pubkey = "t3",
        !.guarantor_repayment_pubkey = "t4",
        !.expected_amount = expected_amount,
        !.interest_rate = get_interest_rate,
        !.duration = get_duration,
        !.amount = get_borrowed_amount(expected_amount, get_duration, get_interest_rate)]

InitBuilder ==
    /\ \E r \in {"t1", "t5"}, e \in InitAmounts : loan = GuaranteedLoan(r, e)
    /\ tokenOwner = [a \in InitialTokenAccts |-> IF a \in {"t3", "t4"} THEN PDA ELSE TokenOwner0[a]]
    /\ tokenAmount = TokenAmount0
    /\ last = NoCall
    /\ codec = NoCodec

\* A lender's client creates the instruction with accept_loan.
client_accept_loan ==
    /\ codec.phase = None
    /\ \E lender \in Parties, transfer \in TokenAccts, repayment \in TokenAccts,
          receive \in TokenAccts :
         codec' = [phase |-> "accept_loan",
                   lender |-> lender, transfer |-> transfer,
                   repayment |-> repayment, receive |-> receive,
                   accounts |-> accept_loan(lender, transfer, repayment, receive, "loan")]
    /\ Held

\* A lender's client lists the accounts as AcceptLoan documents them.
client_documented ==
    /\ codec.phase = None
    /\ \E lender \in Parties, transfer \in TokenAccts, repayment \in TokenAccts,
          receive \in TokenAccts :
         codec' = [phase |-> "documented",
                   lender |-> lender, transfer |-> transfer,
                   repayment |-> repayment, receive |-> receive,
                   accounts |-> AcceptLoanAccounts(lender, transfer, repayment,
                                                   receive, "loan")]
    /\ Held

\* The program processes the instruction the client created.
process_client_instruction ==
    /\ codec.phase \in {"accept_loan", "documented"}
    /\ process_accept_loan_accounts(codec.accounts)

NextBuilder == client_accept_loan \/ client_documented \/ process_client_instruction

SpecBuilder == InitBuilder /\ [][NextBuilder]_vars

(* ----------------------------- two loan records ------------------------ *)
\* Two loan accounts of the program share the token accounts and the one
\* custodian.  The handlers work on the record of the account presented to
\* them, `loan`; the record of the other account waits in codec.record, and
\* a client turns to the other account between two instructions, where
\* nothing has been observed yet.
\* The record presented first has been initialized by W3 with principal 0;
\* the other one is Accepted, with t3, t4 and t5 in custody for it.  W3 owns
\* the sixth token account.
InitializedLoan(mint, receive) ==
    init_loan_info(ZeroLoan, "W3", mint, receive, 0)

InitTwo ==
    /\ codec = [phase |-> "two_loans", current |-> 1, record |-> AcceptedLoan(0, 0)]
    /\ loan = InitializedLoan("t1", "t2")
    /\ tokenOwner = [a \in InitialTokenAccts \cup {"t6"} |->
                        IF a \in {"t3", "t4", "t5"} THEN PDA
                        ELSE IF a = "t6" THEN "W3" ELSE TokenOwner0[a]]
    /\ tokenAmount = [a \in InitialTokenAccts \cup {"t6"} |->
                        IF a = "t6" THEN 0 ELSE TokenAmount0[a]]
    /\ last = NoCall

other_loan_account ==
    /\ codec.phase = "two_loans"
    /\ loan' = codec.record
    /\ codec' = [codec EXCEPT !.current = 3 - @, !.record = loan]
    /\ last' = NoCall
    /\ UNCHANGED <<tokenOwner, tokenAmount>>

NextTwo == Next \/ other_loan_account

SpecTwo == InitTwo /\ [][NextTwo]_vars

(* ----------------------------- the amount owed ------------------------- *)
\* The inputs get_borrowed_amount is applied to.
AmountPrincipals == {0, 1, 2, ExamplePrincipal, U64Mod \div 2, U64Mod - 1}
AmountDurations == {0, get_duration, 24 * 365 - 1, 24 * 365, 2 * 24 * 365, U32Mod - 1}
AmountRates == {0, get_interest_rate, 98, 99, 198, 199, U32Mod - 2, U32Mod - 1}

InitAmount ==
    /\ loan = ZeroLoan
    /\ tokenOwner = TokenOwner0
    /\ tokenAmount = TokenAmount0
    /\ last = NoCall
    /\ \E e \in AmountPrincipals, d \in AmountDurations, r \in AmountRates :
         codec = [phase |-> "inputs", expected_amount |-> e, loan_duration |-> d,
                  loan_interest |-> r, amount |-> 0]

\* One call of get_borrowed_amount, in a build with or without overflow
\* checks.
borrowed_amount ==
    /\ codec.phase = "inputs"
    /\ \E overflow_checks \in BOOLEAN :
         IF /\ overflow_checks
            /\ get_borrowed_amount_overflows(codec.expected_amount,
                    codec.loan_duration, codec.loan_interest)
            THEN codec' = [codec EXCEPT !.phase = "panicked"]
            ELSE codec' = [codec EXCEPT
                    !.phase = "returned",
                    !.amount = get_borrowed_amount(codec.expected_amount,
                                   codec.loan_duration, codec.loan_interest)]
    /\ Held

NextAmount == borrowed_amount

SpecAmount == InitAmount /\ [][NextAmount]_vars

(* ----------------------------- record codec ---------------------------- *)
\* Loan::LEN
LEN == 230

\* A Pubkey is 32 bytes; a COption<Pubkey> is None or Some(key).
KeyOf(b) == [i \in 1..32 |-> b]
COptionNone == [is_some |-> FALSE, key |-> <<>>]
COptionSome(key) == [is_some |-> TRUE, key |-> key]

\* The fields of Loan, with the first byte and the width of each in the
\* packed record.
OptionOffsets ==
    [guarantor_pubkey |-> 99, lender_pubkey |-> 135,
     lender_loan_repayment_pubkey |-> 171]

\* pack_coption_key(src, dst): the 36 bytes of dst afterwards.
pack_coption_key_tagless(src, dst) ==
    IF src.is_some THEN SubSeq(dst, 1, 4) \o src.key ELSE dst

pack_coption_key(src, dst) ==
    IF src.is_some
        THEN <<1, 0, 0, 0>> \o src.key
        ELSE <<0, 0, 0, 0>> \o SubSeq(dst, 5, 36)

\* unpack_coption_key(src): Ok(option) or Err(InvalidAccountData).
unpack_coption_key_lenient(src) ==
    IF SubSeq(src, 1, 4) = <<0, 0, 0, 0>>
        THEN [err |-> "Ok", value |-> COptionNone]
        ELSE [err |-> "Ok", value |-> COptionSome(SubSeq(src, 5, 36))]

unpack_coption_key(src) ==
    LET tag == SubSeq(src, 1, 4)
        body == SubSeq(src, 5, 36)
    IN  IF tag = <<0, 0, 0, 0>> THEN [err |-> "Ok", value |-> COptionNone]
        ELSE IF tag = <<1, 0, 0, 0>>
            THEN [err |-> "Ok", value |-> COptionSome(body)]
        ELSE [err |-> "InvalidAccountData", value |-> COptionNone]

Failed(err) == [err |-> err, loans |-> {}]

\* Loan::unpack_from_slice
unpack_from_slice(src) ==
    IF Len(src) < LEN THEN Failed("Panic") ELSE
    LET guarantor_pubkey == unpack_coption_key(SubSeq(src, 99, 134))
        lender_pubkey == unpack_coption_key(SubSeq(src, 135, 170))
        lender_loan_repayment_pubkey == unpack_coption_key(SubSeq(src, 171, 206))
    IN  IF src[1] \notin {0, 1} THEN Failed("InvalidAccountData")
        ELSE IF guarantor_pubkey.err # "Ok" THEN Failed(guarantor_pubkey.err)
        ELSE IF lender_pubkey.err # "Ok" THEN Failed(lender_pubkey.err)
        ELSE IF lender_loan_repayment_pubkey.err # "Ok"
            THEN Failed(lender_loan_repayment_pubkey.err)
        ELSE [err |-> "Ok",
              loans |-> {[is_initialized |-> src[1] = 1,
                          status |-> src[2],
                          initializer_pubkey |-> SubSeq(src, 3, 34),
                          temp_token_account_pubkey |-> SubSeq(src, 35, 66),
                          borrower_loan_receive_pubkey |-> SubSeq(src, 67, 98),
                          guarantor_pubkey |-> guarantor_pubkey.value,
                          lender_pubkey |-> lender_pubkey.value,
                          lender_loan_repayment_pubkey |->
                              lender_loan_repayment_pubkey.value,
                          expected_amount |-> from_le_bytes(SubSeq(src, 207, 214)),
                          amount |-> from_le_bytes(SubSeq(src, 215, 222)),
                          interest_rate |-> from_le_bytes(SubSeq(src, 223, 226)),
                          duration |-> from_le_bytes(SubSeq(src, 227, 230))]}]

\* Pack::unpack_unchecked, as the handlers call it: the length is tested
\* before unpack_from_slice runs.
unpack_unchecked(input) ==
    IF Len(input) # LEN THEN Failed("InvalidAccountData")
    ELSE unpack_from_slice(input)

\* Loan::pack_into_slice(&self, dst): the first LEN bytes of dst afterwards.
pack_into_slice(self, dst) ==
    <<IF self.is_initialized THEN 1 ELSE 0>>
        \o <<self.status>>
        \o self.initializer_pubkey
        \o self.temp_token_account_pubkey
        \o self.borrower_loan_receive_pubkey
        \o pack_coption_key(self.guarantor_pubkey, SubSeq(dst, 99, 134))
        \o pack_coption_key(self.lender_pubkey, SubSeq(dst, 135, 170))
        \o pack_coption_key(self.lender_loan_repayment_pubkey, SubSeq(dst, 171, 206))
        \o to_le_bytes(self.expected_amount, 8)
        \o to_le_bytes(self.amount, 8)
        \o to_le_bytes(self.interest_rate, 4)
        \o to_le_bytes(self.duration, 4)

\* The records, the destination buffers and the stored buffers the codec is
\* applied to.
DataOptions == {COptionNone, COptionSome(KeyOf(7))}
DataRecords ==
    {[is_initialized |-> i,
      status |-> st,
      initializer_pubkey |-> KeyOf(1),
      temp_token_account_pubkey |-> KeyOf(2),
      borrower_loan_receive_pubkey |-> KeyOf(3),
      guarantor_pubkey |-> g,
      lender_pubkey |-> l,
      lender_loan_repayment_pubkey |-> r,
      expected_amount |-> e,
      amount |-> 0,
      interest_rate |-> get_interest_rate,
      duration |-> get_duration] :
        i \in BOOLEAN, st \in 0..5, g \in DataOptions, l \in DataOptions,
        r \in DataOptions, e \in {0, ExamplePrincipal}}

ZeroBuffer == [i \in 1..LEN |-> 0]
DirtyBuffer == [i \in 1..LEN |-> 255]

\* A packed Guaranteed record.
BaseBuffer ==
    pack_into_slice(
        [is_initialized |-> TRUE, status |-> 2,
         initializer_pubkey |-> KeyOf(1),
         temp_token_account_pubkey |-> KeyOf(2),
         borrower_loan_receive_pubkey |-> KeyOf(3),
         guarantor_pubkey |-> COptionSome(KeyOf(7)),
         lender_pubkey |-> COptionNone,
         lender_loan_repayment_pubkey |-> COptionNone,
         expected_amount |-> ExamplePrincipal, amount |-> 0,
         interest_rate |-> get_interest_rate, duration |-> get_duration],
        ZeroBuffer)

\* The bytes that decide whether a buffer decodes: the initialized byte and
\* the four tag bytes of each optional key.
TagPositions ==
    {1} \cup UNION {{OptionOffsets[f] + k : k \in 0..3} : f \in DOMAIN OptionOffsets}

\* Stored buffers: the packed record, with one deciding byte replaced, cut
\* short, or grown.
DataBuffers ==
    {[BaseBuffer EXCEPT ![p] = v] : p \in TagPositions, v \in {0, 1, 2, 255}}
        \cup {SubSeq(BaseBuffer, 1, n) : n \in {0, 1, LEN - 1}}
        \cup {BaseBuffer \o <<0>>}

NoResult == [err |-> None, loans |-> {}]

InitData ==
    /\ loan = ZeroLoan
    /\ tokenOwner = TokenOwner0
    /\ tokenAmount = TokenAmount0
    /\ last = NoCall
    /\ \/ \E r \in DataRecords, d \in {ZeroBuffer, DirtyBuffer} :
            codec = [phase |-> "record", rec0 |-> {r}, dst0 |-> d,
                     buf |-> <<>>, res |-> NoResult]
       \/ \E b \in DataBuffers :
            codec = [phase |-> "stored", rec0 |-> {}, dst0 |-> <<>>,
                     buf |-> b, res |-> NoResult]

data_pack ==
    /\ codec.phase = "record"
    /\ \E r \in codec.rec0 :
         codec' = [codec EXCEPT !.phase = "encoded",
                                !.buf = pack_into_slice(r, codec.dst0)]
    /\ Held

data_unpack ==
    /\ codec.phase \in {"encoded", "stored"}
    /\ codec' = [codec EXCEPT
                    !.phase = IF @ = "encoded" THEN "encoded_decoded" ELSE "decoded",
                    !.res = unpack_unchecked(codec.buf)]
    /\ Held

NextData == data_pack \/ data_unpack

SpecData == InitData /\ [][NextData]_vars

(* ----------------------------- properties ------------------------------ *)
StatusRank(s) ==
    CASE s = StatusPending -> 0
      [] s = StatusInitialized -> 1
      [] s = StatusGuaranteed -> 2
      [] s = StatusAccepted -> 3
      [] s = StatusRepaid -> 4
      [] s = StatusCancelled -> 4

Unchanged == UNCHANGED <<loan, tokenOwner, tokenAmount>>

\* The errors of the checks every handler makes before it looks at the record.
EarlyErrors ==
    {"NotEnoughAccountKeys", "MissingRequiredSignature", "IncorrectProgramId",
     "InvalidArgument", "NotRentExempt"}

\* The errors the handlers themselves return (not the token service's).
HandlerErrors ==
    EarlyErrors \cup {"InsufficientFunds", "AccountAlreadyInitialized",
                      "UninitializedAccount", "InvalidInstruction", "NotAuthorized"}

\* The call that has just returned looked at the record of "loan".
ReachedRecord(call) == call.target = "loan" /\ call.result \notin EarlyErrors

\* The call that has just returned needs a status the record did not have.
WrongStatusFor(call, status) ==
    \/ call.op = "GuaranteeLoan" /\ status # StatusInitialized
    \/ call.op = "AcceptLoan" /\ status # StatusGuaranteed
    \/ call.op = "RepayLoan" /\ status # StatusAccepted

\* C1: over any sequence of the four instructions, accepted or rejected, the
\* status of the record never moves down the order Pending < Initialized <
\* Guaranteed < Accepted < Repaid/Cancelled.
C1_StatusNeverDecreases ==
    [][StatusRank(loan'.status) >= StatusRank(loan.status)]_vars

C1_Witness ==
    /\ loan.status = StatusRepaid
    /\ last.op = "RepayLoan"
    /\ last.result = "Ok"

\* C2 as stated: GuaranteeLoan, AcceptLoan and RepayLoan on a record whose
\* status is not the one they need (a Pending record included) return
\* InvalidInstruction (InvalidStateForOperation) and leave the record as it was.
C2_Original ==
    [][WrongStatusFor(last', loan.status) /\ ReachedRecord(last')
          => last'.result = "InvalidInstruction" /\ loan' = loan]_vars

\* C2, amended: such a call never succeeds and leaves the record as it was;
\* once past the checks that precede the record, it returns
\* InvalidInstruction for an initialized record and UninitializedAccount
\* (NotInitialized) for a Pending one.
C2_WrongStatusRejected ==
    [][WrongStatusFor(last', loan.status)
          => /\ last'.result # "Ok"
             /\ loan' = loan
             /\ (ReachedRecord(last')
                   => last'.result = IF loan.is_initialized
                                        THEN "InvalidInstruction"
                                        ELSE "UninitializedAccount")]_vars

C2_Witness ==
    /\ last.op = "GuaranteeLoan"
    /\ last.result = "InvalidInstruction"
    /\ loan.status = StatusAccepted

\* C3 as stated: an InitLoan on a record already initialized returns
\* AccountAlreadyInitialized whatever amount it carries, and the record stays.
C3_Original ==
    [][last'.op = "InitLoan" /\ loan.is_initialized /\ ReachedRecord(last')
          => last'.result = "AccountAlreadyInitialized" /\ loan' = loan]_vars

\* C3, amended: such an InitLoan never succeeds and the record keeps every
\* field; it returns AccountAlreadyInitialized once past the earlier checks,
\* one of which is that the loan account's lamports cover the amount carried
\* (InsufficientFunds otherwise).
C3_SecondInitRejected ==
    [][last'.op = "InitLoan" /\ loan.is_initialized
          => /\ last'.result # "Ok"
             /\ loan' = loan
             /\ (ReachedRecord(last')
                   => last'.result \in {"InsufficientFunds",
                                        "AccountAlreadyInitialized"})]_vars

C3_Witness ==
    /\ last.op = "InitLoan"
    /\ last.result = "AccountAlreadyInitialized"
    /\ loan.status = StatusAccepted

\* C4: an initialized record has amount >= expected_amount.
C4_AmountCoversPrincipal ==
    loan.is_initialized => loan.amount >= loan.expected_amount

\* C5: a handler that returns one of its own errors has neither written the
\* record nor issued a request to the token service, and nothing has changed.
C5_ChecksBeforeEffects ==
    [][last'.result \in HandlerErrors
          => ~last'.wrote /\ last'.cpis = <<>> /\ Unchanged]_vars

\* C6: while the loan is Guaranteed or Accepted the collateral and the
\* guarantor's repayment account belong to the custodian, while it is
\* Accepted the lender's repayment account does too, and an account leaves
\* the custodian only in a successful RepayLoan of the loan that records it.
C6_CustodyHeld ==
    /\ [](/\ loan.status \in {StatusGuaranteed, StatusAccepted}
             => /\ tokenOwner[loan.collateral_account_pubkey] = PDA
                /\ tokenOwner[loan.guarantor_repayment_pubkey] = PDA
          /\ loan.status = StatusAccepted
             => tokenOwner[loan.lender_repayment_pubkey] = PDA)
    /\ [][\A a \in TokenAccts :
             tokenOwner[a] = PDA /\ tokenOwner'[a] # PDA
                => /\ last'.op = "RepayLoan"
                   /\ last'.result = "Ok"
                   /\ loan.status = StatusAccepted
                   /\ a \in {loan.collateral_account_pubkey,
                             loan.guarantor_repayment_pubkey,
                             loan.lender_repayment_pubkey}]_vars

C6_Witness ==
    /\ loan.status = StatusAccepted
    /\ last.op = "AcceptLoan"
    /\ last.result = "Ok"
    /\ tokenOwner[loan.collateral_account_pubkey] = PDA
    /\ tokenOwner[loan.lender_repayment_pubkey] = PDA

\* C7: a successful RepayLoan takes the loan from Accepted to Repaid, issues
\* the two transfers and then the three releases, and leaves the collateral
\* and the guarantor's repayment account with the recorded guarantor, the
\* lender's repayment account with the recorded lender, and no account with
\* the custodian.
C7_RepayReleases ==
    [][last'.op = "RepayLoan" /\ last'.result = "Ok"
          => /\ loan.status = StatusAccepted
             /\ loan'.status = StatusRepaid
             /\ last'.cpis = <<"transfer", "transfer", "set_authority",
                               "set_authority", "set_authority">>
             /\ tokenOwner[loan.collateral_account_pubkey] = PDA
             /\ tokenOwner'[loan.collateral_account_pubkey] = loan.guarantor_pubkey
             /\ tokenOwner'[loan.guarantor_repayment_pubkey] = loan.guarantor_pubkey
             /\ tokenOwner'[loan.lender_repayment_pubkey] = loan.lender_pubkey
             /\ \A a \in TokenAccts : tokenOwner'[a] # PDA]_vars

C7_Witness ==
    /\ last.op = "RepayLoan"
    /\ last.result = "Ok"
    /\ loan.status = StatusRepaid
    /\ tokenOwner[loan.lender_repayment_pubkey] = loan.lender_pubkey
    /\ tokenOwner[loan.collateral_account_pubkey] = loan.guarantor_pubkey

\* C8: an AcceptLoan or RepayLoan that comes to compare a presented account
\* with the recorded one and presents another returns NotAuthorized, having
\* written and requested nothing, and nothing changes.
C8_MismatchRejected ==
    [][last'.mismatch # {}
          => /\ last'.result = "NotAuthorized"
             /\ ~last'.wrote
             /\ last'.cpis = <<>>
             /\ Unchanged]_vars

C8_Witness ==
    /\ last.op = "RepayLoan"
    /\ last.result = "NotAuthorized"
    /\ last.mismatch = {"lender_token"}
    /\ loan.status = StatusAccepted

\* C9: an instruction whose first account has not signed returns
\* MissingRequiredSignature, having written and requested nothing, and
\* nothing changes.
C9_UnsignedRejected ==
    [][last'.signer = "unsigned"
          => /\ last'.result = "MissingRequiredSignature"
             /\ ~last'.wrote
             /\ last'.cpis = <<>>
             /\ Unchanged]_vars

C9_Witness ==
    /\ last.op = "RepayLoan"
    /\ last.signer = "unsigned"
    /\ last.result = "MissingRequiredSignature"
    /\ loan.status = StatusAccepted

\* C10: an instruction whose source account holds fewer tokens than the
\* amount it must cover returns InsufficientFunds before the record is
\* written and before any request is issued.
C10_ShortBalanceRejected ==
    [][last'.short = "short"
          => /\ last'.result = "InsufficientFunds"
             /\ ~last'.wrote
             /\ last'.cpis = <<>>]_vars

\* The call that has just returned was accepted.
Succeeded(call, op) == call.op = op /\ call.result = "Ok"

\* total_repayable(principal, duration, rate) as the specification writes it.
total_repayable(principal, duration, rate) ==
    (duration \div (24 * 365)) * (((rate + 1) \div 100) + 1) * principal

C12_EscrowInCustody ==
    [][(Succeeded(last', "InitLoan") /\ tokenOwner[last'.args[2]] = last'.args[1])
          => tokenOwner'[last'.args[2]] = PDA]_vars

\* C13: an InitLoan succeeds only if its fee-escrow account (the second
\* account) belongs to the initializer (the first).
C13_EscrowOwnedByInitializer ==
    [][Succeeded(last', "InitLoan")
          => tokenOwner[last'.args[2]] = last'.args[1]]_vars

C15_GuaranteeLoanEffect ==
    [][Succeeded(last', "GuaranteeLoan")
          => /\ loan.status = StatusInitialized
             /\ last'.signer = "signed"
             /\ loan' = [loan EXCEPT
                            !.status = StatusGuaranteed,
                            !.guarantor_pubkey = last'.args[1],
                            !.collateral_account_pubkey = last'.args[2],
                            !.guarantor_repayment_pubkey = last'.args[3]]
             /\ tokenOwner[last'.args[2]] = last'.args[1]
             /\ tokenOwner[last'.args[3]] = last'.args[1]
             /\ tokenOwner' = [tokenOwner EXCEPT ![last'.args[2]] = PDA,
                                                 ![last'.args[3]] = PDA]
             /\ tokenAmount' = tokenAmount
             /\ Lamports(last'.args[3]) >= RentMin]_vars

C15_Witness ==
    /\ Succeeded(last, "GuaranteeLoan")
    /\ loan.status = StatusGuaranteed
    /\ loan.guarantor_pubkey = "W1"
    /\ loan.collateral_account_pubkey = "t1"
    /\ loan.guarantor_repayment_pubkey = "t2"
    /\ tokenOwner["t1"] = PDA
    /\ tokenOwner["t2"] = PDA

\* C16: a successful AcceptLoan finds the record Guaranteed and leaves it
\* Accepted with the signing first account as lender and the third as
\* lender-repayment account, every other field as it was; that account
\* belonged to the lender and now belongs to the custodian; and exactly
\* expected_amount is taken from the lender's transfer account (the second)
\* and added to the recorded receive account (the fourth).
C16_AcceptLoanEffect ==
    [][Succeeded(last', "AcceptLoan")
          => /\ loan.status = StatusGuaranteed
             /\ last'.signer = "signed"
             /\ loan' = [loan EXCEPT
                            !.status = StatusAccepted,
                            !.lender_pubkey = last'.args[1],
                            !.lender_repayment_pubkey = last'.args[3]]
             /\ last'.args[4] = loan.borrower_loan_receive_pubkey
             /\ tokenOwner[last'.args[3]] = last'.args[1]
             /\ tokenOwner' = [tokenOwner EXCEPT ![last'.args[3]] = PDA]
             /\ tokenAmount[last'.args[2]] >= loan.expected_amount
             /\ LET debited == [tokenAmount EXCEPT
                                  ![last'.args[2]] = @ - loan.expected_amount]
                IN  tokenAmount' = [debited EXCEPT
                                      ![last'.args[4]] = @ + loan.expected_amount]]_vars

C16_Witness ==
    /\ Succeeded(last, "AcceptLoan")
    /\ loan.status = StatusAccepted
    /\ loan.expected_amount = ExamplePrincipal
    /\ last.args[2] = "t2"
    /\ last.args[4] = "t3"
    /\ tokenAmount["t3"] = ExamplePrincipal
    /\ tokenAmount["t2"] = U64Mod - 1 - ExamplePrincipal
    /\ tokenOwner[loan.lender_repayment_pubkey] = PDA

\* The share of the interest a party with `pct` per cent receives, as the
\* specification writes it: the program's share is processing_fee_pct per
\* cent of the interest, the party's share is pct per cent of the rest, and
\* the result is truncated.  (Computed in hundredths to stay in the integers.)
share_of(interest, pct) ==
    LET program_share_x100 == interest * 1
    IN  (((interest * 100) - program_share_x100) * pct) \div (100 * 100)

\* C17: a successful RepayLoan on a record with amount >= expected_amount
\* takes loan_interest = amount - expected_amount, credits the
\* guarantor-repayment account (the fifth account) with the guarantor's
\* share of it and the lender-repayment account (the seventh) with
\* expected_amount plus the lender's share, both shares at 50 per cent after
\* the 1 per cent program share and truncated, and debits the payer's token
\* account (the second) by the two; for amount 20000 and expected_amount
\* 13337 the credits are 3298 and 16635.
C17_RepayShares ==
    [][(Succeeded(last', "RepayLoan") /\ loan.amount >= loan.expected_amount)
          => LET loan_interest_ == loan.amount - loan.expected_amount
                 to_guarantor == share_of(loan_interest_, 50)
                 to_lender == loan.expected_amount + share_of(loan_interest_, 50)
                 debited == [tokenAmount EXCEPT
                               ![last'.args[2]] = @ - (to_guarantor + to_lender)]
                 paid == [debited EXCEPT ![last'.args[5]] = @ + to_guarantor]
             IN  /\ last'.args[5] = loan.guarantor_repayment_pubkey
                 /\ last'.args[7] = loan.lender_repayment_pubkey
                 /\ tokenAmount' = [paid EXCEPT ![last'.args[7]] = @ + to_lender]
                 /\ (loan.amount = 20000 /\ loan.expected_amount = 13337
                       => /\ tokenAmount'[last'.args[7]]
                               = tokenAmount[last'.args[7]] + 16635
                          /\ tokenAmount'[last'.args[5]]
                               = tokenAmount[last'.args[5]] + 3298)]_vars

C17_Witness ==
    /\ Succeeded(last, "RepayLoan")
    /\ loan.amount = 20000
    /\ loan.expected_amount = 13337
    /\ tokenAmount["t4"] = 3298
    /\ tokenAmount["t5"] = 16635
    /\ tokenAmount["t2"] = U64Mod - 1 - 3298 - 16635

\* The optional identities of the record, by the stage that sets them.
GuarantorFields ==
    {"guarantor_pubkey", "collateral_account_pubkey", "guarantor_repayment_pubkey"}
LenderFields == {"lender_pubkey", "lender_repayment_pubkey"}

\* C18: the guarantor, collateral and guarantor-repayment identities are
\* absent until the loan is Guaranteed and present from then on, the lender
\* and lender-repayment identities are absent until it is Accepted and
\* present from then on; such a field changes only from absent to present,
\* and only in a successful GuaranteeLoan, respectively AcceptLoan.
C18_OptionalsSetOnce ==
    /\ [](/\ \A f \in GuarantorFields :
                (loan[f] = None) <=> (loan.status \in {StatusPending, StatusInitialized})
          /\ \A f \in LenderFields :
                (loan[f] = None) <=> (loan.status \in {StatusPending, StatusInitialized,
                                                        StatusGuaranteed}))
    /\ [][/\ \A f \in GuarantorFields :
                loan'[f] # loan[f]
                    => /\ loan[f] = None
                       /\ loan'[f] # None
                       /\ Succeeded(last', "GuaranteeLoan")
          /\ \A f \in LenderFields :
                loan'[f] # loan[f]
                    => /\ loan[f] = None
                       /\ loan'[f] # None
                       /\ Succeeded(last', "AcceptLoan")]_vars

C18_Witness ==
    /\ loan.status = StatusRepaid
    /\ loan.guarantor_pubkey = "W2"
    /\ loan.collateral_account_pubkey = "t3"
    /\ loan.guarantor_repayment_pubkey = "t4"
    /\ loan.lender_pubkey = "W1"
    /\ loan.lender_repayment_pubkey = "t1"

\* The fields InitLoan computes or copies.
InitFields ==
    {"amount", "expected_amount", "interest_rate", "duration",
     "initializer_pubkey", "loan_mint_pubkey", "borrower_loan_receive_pubkey"}

\* C19: GuaranteeLoan, AcceptLoan and RepayLoan, accepted or rejected, leave
\* amount, expected_amount, interest_rate, duration, initializer, fee-escrow
\* account and receive account as they were; these fields change only in a
\* successful InitLoan on a record not yet initialized.
C19_InitFieldsFrozen ==
    [][\A f \in InitFields :
          /\ last'.op \in {"GuaranteeLoan", "AcceptLoan", "RepayLoan"}
                => loan'[f] = loan[f]
          /\ loan'[f] # loan[f]
                => Succeeded(last', "InitLoan") /\ ~loan.is_initialized]_vars

C19_Witness ==
    /\ Succeeded(last, "RepayLoan")
    /\ loan.status = StatusRepaid
    /\ loan.initializer_pubkey = "W3"
    /\ loan.loan_mint_pubkey = "t5"
    /\ loan.borrower_loan_receive_pubkey = "t3"
    /\ loan.interest_rate = 9
    /\ loan.duration = 720
    /\ loan.amount = 0

\* C20: once the record is Repaid every instruction is rejected, and the
\* record, every token balance and every token account's owner stay as they
\* were.
C20_RepaidTerminal ==
    [][loan.status = StatusRepaid => last'.result # "Ok" /\ Unchanged]_vars

C20_Witness ==
    /\ loan.status = StatusRepaid
    /\ last.op = "InitLoan"
    /\ last.target = "loan"
    /\ last.result = "AccountAlreadyInitialized"

\* C21: the status of the record is always one of Pending, Initialized,
\* Guaranteed, Accepted, Repaid: no sequence of instructions makes it
\* Cancelled.
C21_NeverCancelled ==
    loan.status \in {StatusPending, StatusInitialized, StatusGuaranteed,
                     StatusAccepted, StatusRepaid}

C21_Witness ==
    /\ loan.status = StatusRepaid
    /\ last.op = "GuaranteeLoan"
    /\ last.result = "InvalidInstruction"

\* The status an instruction needs, and the one it leaves.
StatusBefore(op) ==
    CASE op = "InitLoan" -> StatusPending
      [] op = "GuaranteeLoan" -> StatusInitialized
      [] op = "AcceptLoan" -> StatusGuaranteed
      [] op = "RepayLoan" -> StatusAccepted

StatusAfter(op) ==
    CASE op = "InitLoan" -> StatusInitialized
      [] op = "GuaranteeLoan" -> StatusGuaranteed
      [] op = "AcceptLoan" -> StatusAccepted
      [] op = "RepayLoan" -> StatusRepaid

\* C22: instructions on one record take effect one after another, and each
\* kind succeeds at most once: a successful instruction finds the status it
\* needs and leaves the next one, and the status never goes back.  An
\* AcceptLoan on a record already Accepted (or Repaid) is rejected, whoever
\* the lender: the recorded lender stays and no token moves, so the borrower
\* receives expected_amount once.
C22_OneAttemptSucceeds ==
    [][/\ last'.result = "Ok"
            => /\ loan.status = StatusBefore(last'.op)
               /\ loan'.status = StatusAfter(last'.op)
       /\ StatusRank(loan'.status) >= StatusRank(loan.status)
       /\ (last'.op = "AcceptLoan" /\ loan.status \in {StatusAccepted, StatusRepaid})
            => /\ last'.result # "Ok"
               /\ loan'.lender_pubkey = loan.lender_pubkey
               /\ Unchanged]_vars

C22_Witness ==
    /\ last.op = "AcceptLoan"
    /\ last.result = "InvalidInstruction"
    /\ loan.status = StatusAccepted
    /\ loan.lender_pubkey = "W1"
    /\ tokenAmount[loan.borrower_loan_receive_pubkey] = loan.expected_amount
    /\ loan.expected_amount = ExamplePrincipal

\* The u64 eight little-endian bytes stand for (bytes 5 to 8 are drawn as 0).
U64Of(b) ==
    b[1] + 256 * (b[2] + 256 * (b[3] + 256 * (b[4] + 256 * (b[5] + 256 *
        (b[6] + 256 * (b[7] + 256 * b[8]))))))

\* C23: decoding a buffer gives an instruction exactly when the buffer is not
\* empty, its first byte is 0, 1, 2 or 3 and, for 0, at least 8 bytes follow;
\* 0 gives InitLoan with the little-endian u64 of the 8 bytes after the tag,
\* 1, 2, 3 give GuaranteeLoan, AcceptLoan, RepayLoan; every other buffer
\* gives InvalidInstruction (DecodeError).
C23_UnpackExactly ==
    codec.phase = "unpacked"
        => LET b == codec.buf0
               decodable == /\ Len(b) >= 1
                            /\ b[1] \in {0, 1, 2, 3}
                            /\ (b[1] = 0 => Len(b) >= 9)
           IN  /\ (codec.ix # InvalidIx) <=> decodable
               /\ decodable
                    => codec.ix =
                         CASE b[1] = 0 -> [tag |-> "InitLoan",
                                           amount |-> U64Of(SubSeq(b, 2, 9))]
                           [] b[1] = 1 -> [tag |-> "GuaranteeLoan", amount |-> 0]
                           [] b[1] = 2 -> [tag |-> "AcceptLoan", amount |-> 0]
                           [] b[1] = 3 -> [tag |-> "RepayLoan", amount |-> 0]

C23_Witness ==
    /\ codec.phase = "unpacked"
    /\ codec.buf0 = <<0, 255, 1, 0, 127, 0, 0, 0, 0, 0>>
    /\ codec.ix = [tag |-> "InitLoan", amount |-> 255 + 256 + 127 * 16777216]

\* C24 as stated: decoding the encoding of an instruction gives the
\* instruction back, and encoding the decoding of a buffer that decodes gives
\* the buffer back.
C24_Original ==
    /\ codec.phase = "packed_unpacked" => codec.ix = codec.ix0
    /\ codec.phase = "unpacked_packed" => codec.buf = codec.buf0

\* C24, amended: decoding the encoding of an instruction gives the
\* instruction back; encoding the decoding of a buffer that decodes gives the
\* part of the buffer that was read, its tag and, for InitLoan, the 8 bytes
\* after it: the buffer itself exactly when nothing follows them.
C24_RoundTrip ==
    /\ codec.phase = "packed_unpacked" => codec.ix = codec.ix0
    /\ codec.phase = "unpacked_packed"
         => LET read == IF codec.buf0[1] = 0 THEN 9 ELSE 1
            IN  /\ codec.buf = SubSeq(codec.buf0, 1, read)
                /\ (codec.buf = codec.buf0) <=> (Len(codec.buf0) = read)

C24_Witness ==
    /\ codec.phase = "unpacked_packed"
    /\ codec.buf0 = <<0, 1, 255, 0, 0, 0, 0, 0, 0, 0>>
    /\ codec.buf = <<0, 1, 255, 0, 0, 0, 0, 0, 0>>
    /\ codec.ix = [tag |-> "InitLoan", amount |-> 1 + 255 * 256]

\* C25: encoding a Loan record and decoding the bytes gives back a record
\* equal to the original in every field, for every status value and every
\* combination of present and absent optional keys, whatever the destination
\* buffer held before.
C25_RecordRoundTrip ==
    codec.phase = "encoded_decoded" =>
        codec.res = [err |-> "Ok", loans |-> codec.rec0]

C25_Witness ==
    /\ codec.phase = "encoded_decoded"
    /\ codec.dst0 = DirtyBuffer
    /\ codec.res.err = "Ok"
    /\ \E r \in codec.res.loans :
         /\ r.status = 5
         /\ r.guarantor_pubkey = COptionSome(KeyOf(7))
         /\ r.lender_pubkey = COptionNone
         /\ r.expected_amount = ExamplePrincipal

\* The tag of an optional key in a stored buffer is one of the two valid tags.
ValidTag(b, f) ==
    SubSeq(b, OptionOffsets[f], OptionOffsets[f] + 3) \in {<<0, 0, 0, 0>>, <<1, 0, 0, 0>>}

\* C26: decoding fails with InvalidAccountData and produces no record when
\* the buffer is shorter than 230 bytes, when the initialized byte is neither
\* 0 nor 1, or when the tag of an optional key is neither the 0 tag nor the
\* 1 tag.
C26_DecodeErrors ==
    codec.phase \in {"decoded", "encoded_decoded"} =>
        ((\/ Len(codec.buf) < LEN
          \/ codec.buf[1] \notin {0, 1}
          \/ \E f \in DOMAIN OptionOffsets : ~ValidTag(codec.buf, f))
            => codec.res = [err |-> "InvalidAccountData", loans |-> {}])

C26_Witness ==
    /\ codec.phase = "decoded"
    /\ Len(codec.buf) = LEN
    /\ codec.buf[1] = 1
    /\ codec.buf[OptionOffsets.lender_pubkey] = 2
    /\ codec.res = [err |-> "InvalidAccountData", loans |-> {}]

\* C27: whatever the destination buffer held before, an absent optional key
\* is encoded as a zero tag followed by 32 zero bytes.
C27_AbsentKeyZeroed ==
    codec.phase = "encoded" =>
        \A r \in codec.rec0 : \A f \in DOMAIN OptionOffsets :
            ~r[f].is_some =>
                SubSeq(codec.buf, OptionOffsets[f], OptionOffsets[f] + 35)
                    = [i \in 1..36 |-> 0]

\* C28: for every input, get_borrowed_amount returns
\* floor(duration / 8760) * (floor((rate + processing fee) / 100) + 1) * principal
\* computed in u64, and 0 when the duration is below 8760.
C28_AmountFormula ==
    codec.phase \in {"returned", "panicked"} =>
        /\ codec.phase = "returned"
        /\ codec.amount =
              ((codec.loan_duration \div 8760)
                  * (((codec.loan_interest + get_processing_fee) \div 100) + 1)
                  * codec.expected_amount) % U64Mod
        /\ codec.loan_duration < 8760 => codec.amount = 0

\* The accounts the lender's client chose are valid for the Guaranteed loan:
\* the receive account is the recorded one, the repayment account is the
\* lender's, rent exempt, and the transfer account is another account of the
\* lender's that covers the principal.
ValidAcceptAccounts ==
    /\ loan.status = StatusGuaranteed
    /\ codec.transfer # codec.repayment
    /\ codec.receive = loan.borrower_loan_receive_pubkey
    /\ tokenOwner[codec.repayment] = codec.lender
    /\ is_exempt(Lamports(codec.repayment))
    /\ tokenOwner[codec.transfer] = codec.lender
    /\ tokenAmount[codec.transfer] >= loan.expected_amount
    /\ Lamports(codec.transfer) >= loan.expected_amount

\* C29: an AcceptLoan created by accept_loan for a Guaranteed loan with valid
\* accounts is accepted: the builder lists the accounts in the order
\* process_accept_loan reads them.
C29_BuiltAcceptLoanAccepted ==
    (/\ codec.phase = "accept_loan"
     /\ last.op = "AcceptLoan"
     /\ ValidAcceptAccounts)
        => last.result = "Ok"

\* The same instruction with the accounts in the documented order is
\* accepted.
DocumentedAcceptLoanAccepted ==
    (/\ codec.phase = "documented"
     /\ last.op = "AcceptLoan"
     /\ ValidAcceptAccounts)
        => last.result = "Ok"

\* The results by which RepayLoan refuses an account that is not a recorded
\* one: a missing account, another token program or custodian, a token
\* account the payer or the custodian cannot sign for.
UnfitAccountErrors ==
    {"NotEnoughAccountKeys", "IncorrectProgramId", "MissingAccount", "TokenOwnerMismatch"}

\* C30: on an Accepted loan with a positive principal, a signed RepayLoan
\* that presents the recorded accounts, from a payer holding at least
\* amount, succeeds and leaves the loan Repaid: amount - expected_amount does
\* not underflow.
C30_RepaySucceeds ==
    [][(/\ last'.op = "RepayLoan"
        /\ last'.target = "loan"
        /\ loan.status = StatusAccepted
        /\ loan.expected_amount > 0
        /\ last'.signer = "signed"
        /\ last'.mismatch = {}
        /\ last'.short = "covered"
        /\ last'.result \notin UnfitAccountErrors)
          => (last'.result = "Ok" /\ loan'.status = StatusRepaid)]_vars

\* C31: a call that presents a loan record account the program does not own
\* is rejected by the handler: it does not act on the status that record
\* shows, writes nothing to it and asks nothing of the token program.
C31_ForeignRecordRejected ==
    (last.target # None /\ AccountOwner(last.target) # ProgramId)
        => /\ last.result # "Ok"
           /\ ~last.wrote
           /\ last.cpis = <<>>

\* What a step adds to the tokens of an account.
Credit(a) == tokenAmount'[a] - tokenAmount[a]

C33_InitializedIffNotPending ==
    loan.is_initialized <=> loan.status # StatusPending

C33_Witness ==
    /\ Succeeded(last, "InitLoan")
    /\ loan.is_initialized
    /\ loan.status = StatusInitialized

\* The tokens of all token accounts together.
TotalTokens(amounts) ==
    amounts["t1"] + amounts["t2"] + amounts["t3"] + amounts["t4"] + amounts["t5"]

\* C34: the tokens of all accounts together never change.  InitLoan,
\* GuaranteeLoan and every rejected instruction change no balance; a
\* successful AcceptLoan takes expected_amount from the lender's transfer
\* account and adds it to the borrower's receive account; a successful
\* RepayLoan only takes from the payer's account and only adds to the
\* guarantor's and the lender's repayment accounts.
C34_BalancesConserved ==
    /\ [](TotalTokens(tokenAmount) = TotalTokens(TokenAmount0))
    /\ [][/\ (last'.op \in {"InitLoan", "GuaranteeLoan"}) => (tokenAmount' = tokenAmount)
          /\ (last'.result # "Ok") => (tokenAmount' = tokenAmount)
          /\ (Succeeded(last', "AcceptLoan") /\ last'.args[2] # last'.args[4])
                => (tokenAmount' =
                      [tokenAmount EXCEPT
                          ![last'.args[2]] = @ - loan.expected_amount,
                          ![last'.args[4]] = @ + loan.expected_amount])
          /\ Succeeded(last', "RepayLoan")
                => \A a \in TokenAccts :
                      /\ (Credit(a) < 0) => (a = last'.args[2])
                      /\ (Credit(a) > 0) => (a \in {last'.args[5], last'.args[7]})]_vars

C34_Witness ==
    /\ Succeeded(last, "AcceptLoan")
    /\ loan.expected_amount = ExamplePrincipal
    /\ last.args[2] = "t2"
    /\ last.args[4] = "t3"
    /\ tokenAmount["t3"] = ExamplePrincipal
    /\ tokenAmount["t2"] = TokenAmount0["t2"] - ExamplePrincipal

\* The token accounts held in custody for a record.
Escrowed(record) ==
    IF record.status = StatusGuaranteed
        THEN {record.collateral_account_pubkey, record.guarantor_repayment_pubkey}
    ELSE IF record.status = StatusAccepted
        THEN {record.collateral_account_pubkey, record.guarantor_repayment_pubkey,
              record.lender_repayment_pubkey}
    ELSE {}

\* C35: with two loan records and one custodian, an account in custody for
\* one record is never taken as collateral or repayment account of the
\* other (the accounts held for the two are disjoint, all owned by the
\* custodian, and a GuaranteeLoan or AcceptLoan naming one held for the
\* other does not succeed), and no instruction on one record, RepayLoan in
\* particular, changes the owner of an account held for the other.
C35_CustodyPerLoan ==
    /\ [](/\ Escrowed(loan) \cap Escrowed(codec.record) = {}
          /\ \A a \in Escrowed(loan) \cup Escrowed(codec.record) : tokenOwner[a] = PDA)
    /\ [][(codec' = codec)
            => /\ \A a \in Escrowed(codec.record) : tokenOwner'[a] = tokenOwner[a]
               /\ Succeeded(last', "GuaranteeLoan")
                    => {last'.args[2], last'.args[3]} \cap Escrowed(codec.record) = {}
               /\ Succeeded(last', "AcceptLoan")
                    => last'.args[3] \notin Escrowed(codec.record)]_vars

\* A RepayLoan on the second record has released its three accounts while
\* the first record is Guaranteed with t1 and t2 in custody.
C35_Witness ==
    /\ Succeeded(last, "RepayLoan")
    /\ codec.current = 2
    /\ loan.status = StatusRepaid
    /\ tokenOwner["t3"] = "W2"
    /\ tokenOwner["t5"] = "W3"
    /\ codec.record.status = StatusGuaranteed
    /\ Escrowed(codec.record) = {"t1", "t2"}
    /\ tokenOwner["t1"] = PDA
    /\ tokenOwner["t2"] = PDA
====
